---------------------------- MODULE Spec2Model ----------------------------
(***************************************************************************)
(* Model of src/main.py: the movie-generation job pipeline.                *)
(*                                                                         *)
(*  - parse_script_with_characters is a pure function over strings; a     *)
(*    string is a sequence of one-character strings.                       *)
(*  - JOB_STORE, the /generate_movie handler, the worker_render_movie      *)
(*    task and the three GET endpoints form a state machine scheduled by   *)
(*    one asyncio event loop (variable cur: the coroutine holding it).     *)
(***************************************************************************)
EXTENDS Integers, Sequences, FiniteSets, TLC

VARIABLES
    JOB_STORE,   \* job_id -> record (status, progress, file, preview, error)
    cur,         \* the coroutine that holds the event loop, or Idle
    req,         \* job_id -> locals and position of generate_movie_endpoint
    task,        \* job_id -> locals, position and stage calls of worker_render_movie
    resp,        \* the response of the GET endpoint that has just run
    p_pc,        \* parser harness: "off", "ready" or "parsed"
    p_script,    \* parser harness: the input script
    p_scenes,    \* parser harness: the list parse_script_with_characters returned
    v_pc,        \* scene-visual harness: "off", "ready" or "called"
    v_in,        \* scene-visual harness: scene index, asset lists, text, exists
    v_out        \* scene-visual harness: asset, renderer and duration chosen

vars == <<JOB_STORE, cur, req, task, resp, p_pc, p_script, p_scenes,
          v_pc, v_in, v_out>>

jobVars == <<JOB_STORE, cur, req, task, resp>>
parseVars == <<p_pc, p_script, p_scenes>>
visualVars == <<v_pc, v_in, v_out>>
harnessVars == <<parseVars, visualVars>>

----------------------------------------------------------------------------
(* Bounds *)

NumJobs == 2       \* job ids that can be submitted
MaxLen == 5        \* characters in a script given to the parser harness
MaxIndex == 4      \* largest scene index given to the scene-visual harness
MaxAssets == 2     \* longest asset list given to the scene-visual harness
MaxWords == 14     \* most words in a text given to the scene-visual harness

----------------------------------------------------------------------------
(* Strings *)

Alphabet == {"a", "B", " ", ":", "\n"}

Whitespace == {" ", "\n"}

Range(s) == {s[k] : k \in 1..Len(s)}

\* str.upper, per character
upper_char(c) == IF c = "a" THEN "A" ELSE c

upper(s) == [k \in 1..Len(s) |-> upper_char(s[k])]

RECURSIVE lstrip(_)
lstrip(s) ==
    IF s # <<>> /\ s[1] \in Whitespace THEN lstrip(Tail(s)) ELSE s

RECURSIVE rstrip(_)
rstrip(s) ==
    IF s # <<>> /\ s[Len(s)] \in Whitespace
    THEN rstrip(SubSeq(s, 1, Len(s) - 1))
    ELSE s

\* str.strip()
strip(s) == rstrip(lstrip(s))

\* index of the first occurrence of c in s, 0 when there is none
find(s, c) ==
    IF c \in Range(s)
    THEN CHOOSE k \in 1..Len(s) : s[k] = c /\ \A m \in 1..(k - 1) : s[m] # c
    ELSE 0

\* str.splitlines(): no line for the empty string, none after a final "\n".
\* The remainder is bound as a value (the one element of a set), so that
\* every level of the recursion evaluates its argument once.
RECURSIVE splitlines(_)
splitlines(s) ==
    IF s = <<>> THEN <<>>
    ELSE LET k == find(s, "\n") IN
         IF k = 0 THEN <<s>>
         ELSE <<SubSeq(s, 1, k - 1)>>
              \o CHOOSE r \in {splitlines(rest) :
                                rest \in {SubSeq(s, k + 1, Len(s))}} : TRUE

\* len(text.split()): the number of maximal runs of non-whitespace
word_count(s) ==
    Cardinality({k \in 1..Len(s) :
        /\ s[k] \notin Whitespace
        /\ (k = 1 \/ s[k - 1] \in Whitespace)})

NARRATOR == <<"N", "A", "R", "R", "A", "T", "O", "R">>

----------------------------------------------------------------------------
(* parse_script_with_characters *)

\* Faulty variant of split_first: splits at the last ":" (rsplit).
split_first_at_last(line) ==
    LET k == CHOOSE m \in 1..Len(line) :
                line[m] = ":" /\ \A q \in (m + 1)..Len(line) : line[q] # ":"
    IN <<SubSeq(line, 1, k - 1), SubSeq(line, k + 1, Len(line))>>

\* line.split(":", 1)
split_first(line) ==
    LET k == find(line, ":") IN
    <<SubSeq(line, 1, k - 1), SubSeq(line, k + 1, Len(line))>>

\* Faulty variant of parse_line: a continuation is appended without the
\* joining space.
parse_line_no_space(st, raw) ==
    LET line == strip(raw) IN
    IF line = <<>> THEN [st EXCEPT !.current = 0]
    ELSE IF ":" \in Range(line) THEN
        LET parts == split_first(line)
            name == upper(strip(parts[1]))
            text == strip(parts[2])
        IN [scenes |-> Append(st.scenes, [character |-> name, text |-> text]),
            current |-> Len(st.scenes) + 1]
    ELSE IF st.current # 0 THEN
        [st EXCEPT !.scenes[st.current].text = @ \o line]
    ELSE
        [scenes |-> Append(st.scenes, [character |-> NARRATOR, text |-> line]),
         current |-> Len(st.scenes) + 1]

\* Faulty variant of parse_line: a blank line leaves the scene open.
parse_line_blank_keeps(st, raw) ==
    LET line == strip(raw) IN
    IF line = <<>> THEN st
    ELSE IF ":" \in Range(line) THEN
        LET parts == split_first(line)
            name == upper(strip(parts[1]))
            text == strip(parts[2])
        IN [scenes |-> Append(st.scenes, [character |-> name, text |-> text]),
            current |-> Len(st.scenes) + 1]
    ELSE IF st.current # 0 THEN
        [st EXCEPT !.scenes[st.current].text = @ \o <<" ">> \o line]
    ELSE
        [scenes |-> Append(st.scenes, [character |-> NARRATOR, text |-> line]),
         current |-> Len(st.scenes) + 1]

\* One iteration of the for loop.  st.current is 0 for None, else the
\* position in st.scenes of the dict that current refers to.
parse_line(st, raw) ==
    LET line == strip(raw) IN
    IF line = <<>> THEN [st EXCEPT !.current = 0]
    ELSE IF ":" \in Range(line) THEN
        LET parts == split_first(line)
            name == upper(strip(parts[1]))
            text == strip(parts[2])
        IN [scenes |-> Append(st.scenes, [character |-> name, text |-> text]),
            current |-> Len(st.scenes) + 1]
    ELSE IF st.current # 0 THEN
        [st EXCEPT !.scenes[st.current].text = @ \o <<" ">> \o line]
    ELSE
        [scenes |-> Append(st.scenes, [character |-> NARRATOR, text |-> line]),
         current |-> Len(st.scenes) + 1]

\* Lines 55-74, the loop over the lines.  The state after a line and the
\* remaining lines are bound as values, as in splitlines.
RECURSIVE parse_lines(_, _)
parse_lines(st, lines) ==
    IF lines = <<>> THEN st
    ELSE CHOOSE r \in {parse_lines(next, rest) :
                          next \in {parse_line(st, Head(lines))},
                          rest \in {Tail(lines)}} : TRUE

parse_script_with_characters(script) ==
    parse_lines([scenes |-> <<>>, current |-> 0], splitlines(script)).scenes

----------------------------------------------------------------------------
(* Parser harness: every script over Alphabet of at most MaxLen characters *)

Scripts == UNION {[1..n -> Alphabet] : n \in 0..MaxLen}

ParseCall ==
    /\ p_pc = "ready"
    /\ p_scenes' = parse_script_with_characters(p_script)
    /\ p_pc' = "parsed"
    /\ UNCHANGED <<p_script, jobVars, visualVars>>


----------------------------------------------------------------------------
(* Job table, coroutines and their inputs *)

JobIds == 1..NumJobs

None == <<>>          \* Python None, as the value of "file" / "preview"
NoKey == "<absent>"   \* the record has no "error" key
NoAsset == ""         \* asset = None at line 218

Idle == <<"idle", 0>>
H(j) == <<"handler", j>>    \* generate_movie_endpoint serving job j
W(j) == <<"worker", j>>     \* the task running worker_render_movie(j, ...)

\* Scripts a client submits: 0, 1 and 3 scenes.
JobScripts ==
    { <<>>,
      <<"a", ":", "B">>,
      <<"a", ":", "B", "\n", "B", ":", "a", " ", "a", "\n", "a", ":", "a">> }

\* Uploads a client submits: <<images, clips>>, by file name.
JobUploads ==
    { << <<>>, <<>> >>,
      << <<"a.png", "b.mp4">>, <<>> >>,
      << <<>>, <<"c.mp4">> >> }

VideoExts == {".mp4", ".mov", ".webm", ".mkv", ".avi"}

\* os.path.splitext(asset)[1].lower()
splitext(asset) ==
    CASE asset = "a.png" -> ".png"
      [] asset = "b.mp4" -> ".mp4"
      [] asset = "c.mp4" -> ".mp4"
      [] OTHER -> ""

out_file(j) == <<"outputs", j, "movie.mp4">>
preview_path(j) == <<"outputs", j, "movie_preview.mp4">>

NoReq ==
    [pc |-> "none", script |-> <<>>, images |-> <<>>, clips |-> <<>>,
     saved_images |-> <<>>, saved_clips |-> <<>>]

NoTask ==
    [pc |-> "none", script |-> <<>>, images |-> <<>>, clips |-> <<>>,
     scenes |-> <<>>, i |-> 0, scene_audio_files |-> <<>>,
     scene_video_files |-> <<>>, asset |-> NoAsset, exists |-> FALSE,
     visual |-> "none", duration |-> 0, e |-> NoKey, calls |-> <<>>]

NoVisualIn ==
    [i |-> 0, images |-> <<>>, clips |-> <<>>, exists |-> FALSE,
     words |-> 0, gap |-> 1]

NoVisualOut == [asset |-> NoAsset, visual |-> "none", duration |-> 0]

NoResp == [op |-> "none", job_id |-> 0, code |-> 0, body |-> None]

max(a, b) == IF a >= b THEN a ELSE b

\* The coroutine c may take a step: it holds the event loop, or the loop is
\* free and c is waiting to be resumed or started.
Runnable(c) == cur = c \/ cur = Idle

Init ==
    /\ JOB_STORE = <<>>
    /\ cur = Idle
    /\ req = [j \in JobIds |-> NoReq]
    /\ task = [j \in JobIds |-> NoTask]
    /\ resp = NoResp
    /\ p_pc = "off"
    /\ p_script = <<>>
    /\ p_scenes = <<>>
    /\ v_pc = "off"
    /\ v_in = NoVisualIn
    /\ v_out = NoVisualOut

ParseInit ==
    /\ JOB_STORE = <<>>
    /\ cur = Idle
    /\ req = [j \in JobIds |-> NoReq]
    /\ task = [j \in JobIds |-> NoTask]
    /\ resp = NoResp
    /\ p_pc = "ready"
    /\ p_script \in Scripts
    /\ p_scenes = <<>>
    /\ v_pc = "off"
    /\ v_in = NoVisualIn
    /\ v_out = NoVisualOut

----------------------------------------------------------------------------
(* POST /generate_movie *)

\* The position after the upload loops have consumed what is left.
save_pc(images, clips) ==
    IF images # <<>> THEN "save_images"
    ELSE IF clips # <<>> THEN "save_clips"
    ELSE "start"

\* uuid.uuid4(): an id no record has yet
fresh_job_id == Len(JOB_STORE) + 1

\* Lines 300-306: the record is created in "pending" before anything is saved.
Submit(script, images, clips) ==
    LET job_id == fresh_job_id IN
    /\ cur = Idle
    /\ job_id \in JobIds
    /\ JOB_STORE' = Append(JOB_STORE,
            [status |-> "pending", progress |-> 0, file |-> None,
             preview |-> None, error |-> NoKey])
    /\ req' = [req EXCEPT ![job_id] =
            [pc |-> save_pc(images, clips), script |-> script,
             images |-> images, clips |-> clips,
             saved_images |-> <<>>, saved_clips |-> <<>>]]
    /\ cur' = H(job_id)
    /\ resp' = NoResp
    /\ UNCHANGED <<task, harnessVars>>

\* Lines 309-313, one iteration: open(path, "wb"), await f.read(), write.
\* open/read/write may raise, and nothing in the handler catches it; the
\* await may suspend the handler.
SaveImage(j) ==
    /\ Runnable(H(j))
    /\ req[j].pc = "save_images"
    /\ \E raised \in BOOLEAN, suspended \in BOOLEAN :
         IF raised
         THEN /\ req' = [req EXCEPT ![j] = [NoReq EXCEPT !.pc = "raised"]]
              /\ cur' = Idle
         ELSE /\ req' = [req EXCEPT ![j] =
                    [@ EXCEPT !.images = Tail(@),
                              !.saved_images = Append(@, Head(req[j].images)),
                              !.pc = save_pc(Tail(req[j].images), req[j].clips)]]
              /\ cur' = IF suspended THEN Idle ELSE H(j)
    /\ resp' = NoResp
    /\ UNCHANGED <<JOB_STORE, task, harnessVars>>

\* Lines 316-320, one iteration.
SaveClip(j) ==
    /\ Runnable(H(j))
    /\ req[j].pc = "save_clips"
    /\ \E raised \in BOOLEAN, suspended \in BOOLEAN :
         IF raised
         THEN /\ req' = [req EXCEPT ![j] = [NoReq EXCEPT !.pc = "raised"]]
              /\ cur' = Idle
         ELSE /\ req' = [req EXCEPT ![j] =
                    [@ EXCEPT !.clips = Tail(@),
                              !.saved_clips = Append(@, Head(req[j].clips)),
                              !.pc = save_pc(<<>>, Tail(req[j].clips))]]
              /\ cur' = IF suspended THEN Idle ELSE H(j)
    /\ resp' = NoResp
    /\ UNCHANGED <<JOB_STORE, task, harnessVars>>

\* Faulty variant of StartStatus: line 323 is missing, the status stays
\* pending when the task is created.
StartStatus_missing(j) ==
    /\ Runnable(H(j))
    /\ req[j].pc = "start"
    /\ req' = [req EXCEPT ![j].pc = "start_progress"]
    /\ cur' = H(j)
    /\ resp' = NoResp
    /\ UNCHANGED <<JOB_STORE, task, harnessVars>>

\* Line 323
StartStatus(j) ==
    /\ Runnable(H(j))
    /\ req[j].pc = "start"
    /\ JOB_STORE' = [JOB_STORE EXCEPT ![j].status = "running"]
    /\ req' = [req EXCEPT ![j].pc = "start_progress"]
    /\ cur' = H(j)
    /\ resp' = NoResp
    /\ UNCHANGED <<task, harnessVars>>

\* Variant of StartTask without line 324: the task is created while the
\* progress of the record is still 0.
StartTask_no_progress(j) ==
    /\ cur = H(j)
    /\ req[j].pc = "start_progress"
    /\ task' = [task EXCEPT ![j] =
            [NoTask EXCEPT !.pc = "scheduled",
                           !.script = req[j].script,
                           !.images = req[j].saved_images,
                           !.clips = req[j].saved_clips]]
    /\ req' = [req EXCEPT ![j] = [NoReq EXCEPT !.pc = "returned"]]
    /\ cur' = Idle
    /\ resp' = NoResp
    /\ UNCHANGED <<JOB_STORE, harnessVars>>

\* Lines 324-327: progress 1, asyncio.create_task(...), return.
StartTask(j) ==
    /\ cur = H(j)
    /\ req[j].pc = "start_progress"
    /\ JOB_STORE' = [JOB_STORE EXCEPT ![j].progress = 1]
    /\ task' = [task EXCEPT ![j] =
            [NoTask EXCEPT !.pc = "scheduled",
                           !.script = req[j].script,
                           !.images = req[j].saved_images,
                           !.clips = req[j].saved_clips]]
    /\ req' = [req EXCEPT ![j] = [NoReq EXCEPT !.pc = "returned"]]
    /\ cur' = Idle
    /\ resp' = NoResp
    /\ UNCHANGED harnessVars

----------------------------------------------------------------------------
(* worker_render_movie *)

\* Faulty variant of audio_progress: a band of 30 instead of 20, which
\* overshoots the checkpoint of 40 that follows the loop.
audio_progress_band30(i, n) == 15 + (30 * (i + 1)) \div max(1, n)

\* Line 210
audio_progress(i, n) == 15 + (20 * (i + 1)) \div max(1, n)

\* Variant of video_progress that spreads the scene loop over 40 points, so
\* that it overshoots the checkpoint of 75 that follows the loop.
video_progress_band40(i, n) == 40 + (40 * (i + 1)) \div max(1, n)

\* Line 257
video_progress(i, n) == 40 + (30 * (i + 1)) \div max(1, n)

\* Variant of target_duration that rounds to the nearest whole number
\* instead of truncating.
target_duration_rounds(text) == max(4, (2 * word_count(text) + 2) \div 5)

\* Lines 230, 232, 249: int(max(4, len(text.split()) / 2.5))
target_duration(text) == max(4, (2 * word_count(text)) \div 5)

\* Variant of select_asset that prefers the clip list to the image list.
select_asset_clips_first(i, images, clips) ==
    IF clips # <<>> THEN clips[(i % Len(clips)) + 1]
    ELSE IF images # <<>> THEN images[(i % Len(images)) + 1]
    ELSE NoAsset

\* Lines 218-222
select_asset(i, images, clips) ==
    IF images # <<>> THEN images[(i % Len(images)) + 1]
    ELSE IF clips # <<>> THEN clips[(i % Len(clips)) + 1]
    ELSE NoAsset

\* Variant of visual_branch that tests the existence of images only, so
\* that a clip that is not on disk is still given to the clip renderer.
visual_branch_clip_unchecked(asset, exists) ==
    IF asset # NoAsset /\ splitext(asset) \in VideoExts THEN "clip_trim_or_loop"
    ELSE IF asset # NoAsset /\ exists THEN "image_to_video"
    ELSE "placeholder"

\* Lines 226-249: which renderer the scene gets
visual_branch(asset, exists) ==
    IF asset # NoAsset /\ exists
    THEN IF splitext(asset) \in VideoExts THEN "clip_trim_or_loop"
         ELSE "image_to_video"
    ELSE "placeholder"

\* A stage operation was called for scene i and returned (ok) or raised.
call(t, stage, i, ok) ==
    [t EXCEPT !.calls = Append(@, [stage |-> stage, i |-> i, ok |-> ok])]

\* The exception e leaves the try block: control moves to line 278.
raise(t, e) == [t EXCEPT !.pc = "except", !.e = e]

\* Line 194: the task starts when the event loop picks it up.
WorkerBegin(j) ==
    /\ cur = Idle
    /\ task[j].pc = "scheduled"
    /\ JOB_STORE' = [JOB_STORE EXCEPT ![j].progress = 5]
    /\ task' = [task EXCEPT ![j].pc = "parse"]
    /\ cur' = W(j)
    /\ resp' = NoResp
    /\ UNCHANGED <<req, harnessVars>>

\* Lines 196-197
WorkerParse(j) ==
    /\ cur = W(j)
    /\ task[j].pc = "parse"
    /\ task' = [task EXCEPT ![j] =
            [call(@, "parse", 0, TRUE) EXCEPT
                !.scenes = parse_script_with_characters(task[j].script),
                !.pc = "audio_init"]]
    /\ JOB_STORE' = [JOB_STORE EXCEPT ![j].progress = 10]
    /\ UNCHANGED <<cur, req, resp, harnessVars>>

\* Lines 200-201
WorkerAudioInit(j) ==
    /\ cur = W(j)
    /\ task[j].pc = "audio_init"
    /\ task' = [task EXCEPT ![j].scene_audio_files = <<>>, ![j].i = 0,
                            ![j].pc = "audio_loop"]
    /\ JOB_STORE' = [JOB_STORE EXCEPT ![j].progress = 15]
    /\ UNCHANGED <<cur, req, resp, harnessVars>>

\* Lines 203-208: await synthesize_character_voice(...).  The coroutine has
\* no await of its own (lines 83-97 call gTTS synchronously), so the await
\* never suspends the task: cur stays W(j).
WorkerSynthesize(j) ==
    /\ cur = W(j)
    /\ task[j].pc = "audio_loop"
    /\ task[j].i < Len(task[j].scenes)
    /\ \E ok \in BOOLEAN :
         task' = [task EXCEPT ![j] =
            LET t == call(@, "synthesize_character_voice", task[j].i, ok) IN
            IF ok
            THEN [t EXCEPT
                    !.scene_audio_files = Append(@, <<"audio", task[j].i>>),
                    !.pc = "audio_progress"]
            ELSE raise(t, "synthesis failed")]
    /\ UNCHANGED <<JOB_STORE, cur, req, resp, harnessVars>>

\* Line 210
WorkerAudioProgress(j) ==
    /\ cur = W(j)
    /\ task[j].pc = "audio_progress"
    /\ JOB_STORE' = [JOB_STORE EXCEPT
            ![j].progress = audio_progress(task[j].i, Len(task[j].scenes))]
    /\ task' = [task EXCEPT ![j].i = @ + 1, ![j].pc = "audio_loop"]
    /\ UNCHANGED <<cur, req, resp, harnessVars>>

\* Lines 213-215: the first loop is exhausted.
WorkerAudioDone(j) ==
    /\ cur = W(j)
    /\ task[j].pc = "audio_loop"
    /\ task[j].i = Len(task[j].scenes)
    /\ JOB_STORE' = [JOB_STORE EXCEPT ![j].progress = 40]
    /\ task' = [task EXCEPT ![j].scene_video_files = <<>>, ![j].i = 0,
                            ![j].pc = "video_loop"]
    /\ UNCHANGED <<cur, req, resp, harnessVars>>

\* Lines 216-249: select the asset, test os.path.exists, render the scene.
WorkerVisual(j) ==
    /\ cur = W(j)
    /\ task[j].pc = "video_loop"
    /\ task[j].i < Len(task[j].scenes)
    /\ \E exists \in BOOLEAN, ok \in BOOLEAN :
         task' = [task EXCEPT ![j] =
            LET asset == select_asset(task[j].i, task[j].images, task[j].clips)
                t == [call(@, "visual", task[j].i, ok) EXCEPT
                        !.asset = asset,
                        !.exists = exists,
                        !.visual = visual_branch(asset, exists),
                        !.duration = target_duration(
                                        task[j].scenes[task[j].i + 1].text)]
            IN IF ok THEN [t EXCEPT !.pc = "mux"]
               ELSE raise(t, "encoder failed")]
    /\ UNCHANGED <<JOB_STORE, cur, req, resp, harnessVars>>

\* Variant of WorkerMux that muxes every scene with the audio of scene 0.
WorkerMux_first_audio(j) ==
    /\ cur = W(j)
    /\ task[j].pc = "mux"
    /\ \E ok \in BOOLEAN :
         task' = [task EXCEPT ![j] =
            LET t == call(@, "mux_video_with_audio", task[j].i, ok) IN
            IF ok
            THEN [t EXCEPT
                    !.scene_video_files =
                        Append(@, <<"final", task[j].i,
                                    task[j].scene_audio_files[1]>>),
                    !.pc = "video_progress"]
            ELSE raise(t, "encoder failed")]
    /\ UNCHANGED <<JOB_STORE, cur, req, resp, harnessVars>>

\* Lines 252-256
WorkerMux(j) ==
    /\ cur = W(j)
    /\ task[j].pc = "mux"
    /\ \E ok \in BOOLEAN :
         task' = [task EXCEPT ![j] =
            LET t == call(@, "mux_video_with_audio", task[j].i, ok) IN
            IF ok
            THEN [t EXCEPT
                    !.scene_video_files =
                        Append(@, <<"final", task[j].i,
                                    task[j].scene_audio_files[task[j].i + 1]>>),
                    !.pc = "video_progress"]
            ELSE raise(t, "encoder failed")]
    /\ UNCHANGED <<JOB_STORE, cur, req, resp, harnessVars>>

\* Line 257
WorkerVideoProgress(j) ==
    /\ cur = W(j)
    /\ task[j].pc = "video_progress"
    /\ JOB_STORE' = [JOB_STORE EXCEPT
            ![j].progress = video_progress(task[j].i, Len(task[j].scenes))]
    /\ task' = [task EXCEPT ![j].i = @ + 1, ![j].pc = "video_loop"]
    /\ UNCHANGED <<cur, req, resp, harnessVars>>

\* Lines 260-261: the second loop is exhausted.
WorkerVideoDone(j) ==
    /\ cur = W(j)
    /\ task[j].pc = "video_loop"
    /\ task[j].i = Len(task[j].scenes)
    /\ JOB_STORE' = [JOB_STORE EXCEPT ![j].progress = 75]
    /\ task' = [task EXCEPT ![j].pc = "concat"]
    /\ UNCHANGED <<cur, req, resp, harnessVars>>

\* Variant of WorkerConcat in which concat_videos accepts an empty list and
\* returns an empty artifact.
WorkerConcat_accepts_empty(j) ==
    /\ cur = W(j)
    /\ task[j].pc = "concat"
    /\ \E ok \in BOOLEAN :
         task' = [task EXCEPT ![j] =
             LET t == call(@, "concat_videos", 0, ok) IN
             IF ok THEN [t EXCEPT !.pc = "concat_progress"]
             ELSE raise(t, "encoder failed")]
    /\ UNCHANGED <<JOB_STORE, cur, req, resp, harnessVars>>

\* Line 262; concat_videos raises ValueError on an empty list (lines 158-159).
WorkerConcat(j) ==
    /\ cur = W(j)
    /\ task[j].pc = "concat"
    /\ IF task[j].scene_video_files = <<>>
       THEN task' = [task EXCEPT ![j] =
                raise(call(@, "concat_videos", 0, FALSE), "No videos to concat")]
       ELSE \E ok \in BOOLEAN :
            task' = [task EXCEPT ![j] =
                LET t == call(@, "concat_videos", 0, ok) IN
                IF ok THEN [t EXCEPT !.pc = "concat_progress"]
                ELSE raise(t, "encoder failed")]
    /\ UNCHANGED <<JOB_STORE, cur, req, resp, harnessVars>>

\* Line 264
WorkerConcatProgress(j) ==
    /\ cur = W(j)
    /\ task[j].pc = "concat_progress"
    /\ JOB_STORE' = [JOB_STORE EXCEPT ![j].progress = 88]
    /\ task' = [task EXCEPT ![j].pc = "preview"]
    /\ UNCHANGED <<cur, req, resp, harnessVars>>

\* Faulty variant of WorkerPreview: the preview path is stored before
\* generate_preview is called.
WorkerPreview_path_first(j) ==
    /\ cur = W(j)
    /\ task[j].pc = "preview"
    /\ JOB_STORE' = [JOB_STORE EXCEPT ![j].preview = preview_path(j)]
    /\ \E ok \in BOOLEAN :
         LET t == call(task[j], "generate_preview", 0, ok) IN
         IF ok
         THEN task' = [task EXCEPT ![j] = [t EXCEPT !.pc = "file"]]
         ELSE task' = [task EXCEPT ![j] = raise(t, "encoder failed")]
    /\ UNCHANGED <<cur, req, resp, harnessVars>>

\* Lines 267-269: the preview path is stored only after generate_preview
\* has returned.
WorkerPreview(j) ==
    /\ cur = W(j)
    /\ task[j].pc = "preview"
    /\ \E ok \in BOOLEAN :
         LET t == call(task[j], "generate_preview", 0, ok) IN
         IF ok
         THEN /\ JOB_STORE' = [JOB_STORE EXCEPT ![j].preview = preview_path(j)]
              /\ task' = [task EXCEPT ![j] = [t EXCEPT !.pc = "file"]]
         ELSE /\ task' = [task EXCEPT ![j] = raise(t, "encoder failed")]
              /\ UNCHANGED JOB_STORE
    /\ UNCHANGED <<cur, req, resp, harnessVars>>

\* Line 271
WorkerFile(j) ==
    /\ cur = W(j)
    /\ task[j].pc = "file"
    /\ JOB_STORE' = [JOB_STORE EXCEPT ![j].file = out_file(j)]
    /\ task' = [task EXCEPT ![j].pc = "progress100"]
    /\ UNCHANGED <<cur, req, resp, harnessVars>>

\* Faulty variant of WorkerProgress100: the final write is 99.
WorkerProgress100_writes99(j) ==
    /\ cur = W(j)
    /\ task[j].pc = "progress100"
    /\ JOB_STORE' = [JOB_STORE EXCEPT ![j].progress = 99]
    /\ task' = [task EXCEPT ![j].pc = "done"]
    /\ UNCHANGED <<cur, req, resp, harnessVars>>

\* Line 272
WorkerProgress100(j) ==
    /\ cur = W(j)
    /\ task[j].pc = "progress100"
    /\ JOB_STORE' = [JOB_STORE EXCEPT ![j].progress = 100]
    /\ task' = [task EXCEPT ![j].pc = "done"]
    /\ UNCHANGED <<cur, req, resp, harnessVars>>

\* Line 273, then the coroutine returns: its locals are gone and the event
\* loop is free again.
WorkerDone(j) ==
    /\ cur = W(j)
    /\ task[j].pc = "done"
    /\ JOB_STORE' = [JOB_STORE EXCEPT ![j].status = "done"]
    /\ task' = [task EXCEPT ![j] = [NoTask EXCEPT !.pc = "finished"]]
    /\ cur' = Idle
    /\ UNCHANGED <<req, resp, harnessVars>>

\* Faulty variant of WorkerExceptStatus: the status is written to every
\* record of the table instead of the record of job_id.
WorkerExceptStatus_all_records(j) ==
    /\ cur = W(j)
    /\ task[j].pc = "except"
    /\ JOB_STORE' = [k \in DOMAIN JOB_STORE |->
                        [JOB_STORE[k] EXCEPT !.status = "error"]]
    /\ task' = [task EXCEPT ![j].pc = "except_error"]
    /\ UNCHANGED <<cur, req, resp, harnessVars>>

\* Line 279
WorkerExceptStatus(j) ==
    /\ cur = W(j)
    /\ task[j].pc = "except"
    /\ JOB_STORE' = [JOB_STORE EXCEPT ![j].status = "error"]
    /\ task' = [task EXCEPT ![j].pc = "except_error"]
    /\ UNCHANGED <<cur, req, resp, harnessVars>>

\* Line 280
WorkerExceptError(j) ==
    /\ cur = W(j)
    /\ task[j].pc = "except_error"
    /\ JOB_STORE' = [JOB_STORE EXCEPT ![j].error = task[j].e]
    /\ task' = [task EXCEPT ![j].pc = "except_progress"]
    /\ UNCHANGED <<cur, req, resp, harnessVars>>

\* Faulty variant of WorkerExceptProgress: line 281 is missing, the last
\* progress value is kept.
WorkerExceptProgress_keeps(j) ==
    /\ cur = W(j)
    /\ task[j].pc = "except_progress"
    /\ task' = [task EXCEPT ![j] = [NoTask EXCEPT !.pc = "finished"]]
    /\ cur' = Idle
    /\ UNCHANGED <<JOB_STORE, req, resp, harnessVars>>

\* Line 281, then the coroutine returns: its locals are gone and the event
\* loop is free again.
WorkerExceptProgress(j) ==
    /\ cur = W(j)
    /\ task[j].pc = "except_progress"
    /\ JOB_STORE' = [JOB_STORE EXCEPT ![j].progress = 0]
    /\ task' = [task EXCEPT ![j] = [NoTask EXCEPT !.pc = "finished"]]
    /\ cur' = Idle
    /\ UNCHANGED <<req, resp, harnessVars>>

WorkerStep(j) ==
    \/ WorkerBegin(j)
    \/ WorkerParse(j)
    \/ WorkerAudioInit(j)
    \/ WorkerSynthesize(j)
    \/ WorkerAudioProgress(j)
    \/ WorkerAudioDone(j)
    \/ WorkerVisual(j)
    \/ WorkerMux(j)
    \/ WorkerVideoProgress(j)
    \/ WorkerVideoDone(j)
    \/ WorkerConcat(j)
    \/ WorkerConcatProgress(j)
    \/ WorkerPreview(j)
    \/ WorkerFile(j)
    \/ WorkerProgress100(j)
    \/ WorkerDone(j)
    \/ WorkerExceptStatus(j)
    \/ WorkerExceptError(j)
    \/ WorkerExceptProgress(j)

----------------------------------------------------------------------------
(* Scene-visual harness: lines 216-249 for one scene, on every scene index,
   pair of asset lists and text within the bounds *)

ImageNames == {"a.png", "b.mp4"}
ClipNames == {"c.mp4", "b.mp4"}

Lists(names) == UNION {[1..n -> names] : n \in 0..MaxAssets}

\* A text of w words "a" separated by gap spaces.
words_text(w, gap) ==
    [p \in 1..(IF w = 0 THEN 0 ELSE w + (w - 1) * gap) |->
        IF (p - 1) % (gap + 1) = 0 THEN "a" ELSE " "]

VisualInit ==
    /\ JOB_STORE = <<>>
    /\ cur = Idle
    /\ req = [j \in JobIds |-> NoReq]
    /\ task = [j \in JobIds |-> NoTask]
    /\ resp = NoResp
    /\ p_pc = "off"
    /\ p_script = <<>>
    /\ p_scenes = <<>>
    /\ v_pc = "ready"
    /\ v_in \in [i : 0..MaxIndex, images : Lists(ImageNames),
                 clips : Lists(ClipNames), exists : BOOLEAN,
                 words : 0..MaxWords, gap : 1..2]
    /\ v_out = NoVisualOut

VisualCall ==
    /\ v_pc = "ready"
    /\ v_out' =
          LET asset == select_asset(v_in.i, v_in.images, v_in.clips) IN
          [asset |-> asset,
           visual |-> visual_branch(asset, v_in.exists),
           duration |-> target_duration(words_text(v_in.words, v_in.gap))]
    /\ v_pc' = "called"
    /\ UNCHANGED <<v_in, jobVars, parseVars>>

VisualNext == VisualCall

VisualSpec == VisualInit /\ [][VisualNext]_vars

----------------------------------------------------------------------------
(* GET endpoints: no await inside, each runs in one piece on a free loop *)

known(job_id) == job_id \in DOMAIN JOB_STORE

\* Lines 331-334
status_endpoint(job_id) ==
    IF ~known(job_id)
    THEN [op |-> "status", job_id |-> job_id, code |-> 404, body |-> None]
    ELSE [op |-> "status", job_id |-> job_id, code |-> 200,
          body |-> JOB_STORE[job_id]]

\* Faulty variant of download_endpoint: only "not job" is tested.
download_endpoint_no_file_test(job_id) ==
    IF ~known(job_id)
    THEN [op |-> "download", job_id |-> job_id, code |-> 404, body |-> None]
    ELSE [op |-> "download", job_id |-> job_id, code |-> 200,
          body |-> JOB_STORE[job_id].file]

\* Lines 338-342
download_endpoint(job_id) ==
    IF ~known(job_id) \/ JOB_STORE[job_id].file = None
    THEN [op |-> "download", job_id |-> job_id, code |-> 404, body |-> None]
    ELSE [op |-> "download", job_id |-> job_id, code |-> 200,
          body |-> JOB_STORE[job_id].file]

\* Lines 346-349
preview_endpoint(job_id) ==
    IF ~known(job_id) \/ JOB_STORE[job_id].preview = None
    THEN [op |-> "preview", job_id |-> job_id, code |-> 404, body |-> None]
    ELSE [op |-> "preview", job_id |-> job_id, code |-> 200,
          body |-> JOB_STORE[job_id].preview]

Status(job_id) ==
    /\ cur = Idle
    /\ resp' = status_endpoint(job_id)
    /\ UNCHANGED <<JOB_STORE, cur, req, task, harnessVars>>

Download(job_id) ==
    /\ cur = Idle
    /\ resp' = download_endpoint(job_id)
    /\ UNCHANGED <<JOB_STORE, cur, req, task, harnessVars>>

Preview(job_id) ==
    /\ cur = Idle
    /\ resp' = preview_endpoint(job_id)
    /\ UNCHANGED <<JOB_STORE, cur, req, task, harnessVars>>

----------------------------------------------------------------------------
(* Specifications *)

HandlerStep(j) ==
    \/ SaveImage(j)
    \/ SaveClip(j)
    \/ StartStatus(j)
    \/ StartTask(j)

Next ==
    \/ \E script \in JobScripts, up \in JobUploads : Submit(script, up[1], up[2])
    \/ \E j \in JobIds : HandlerStep(j)
    \/ \E j \in JobIds : WorkerStep(j)
    \/ \E j \in JobIds : Status(j)
    \/ \E j \in JobIds : Download(j)
    \/ \E j \in JobIds : Preview(j)

Spec == Init /\ [][Next]_vars

\* The event loop runs every coroutine that is ready: a handler resumed
\* after its await, a created task, and each step of a running task.
FairSpec ==
    /\ Spec
    /\ \A j \in JobIds : WF_vars(HandlerStep(j))
    /\ \A j \in JobIds : WF_vars(WorkerStep(j))

ParseNext == ParseCall

ParseSpec == ParseInit /\ [][ParseNext]_vars

----------------------------------------------------------------------------
(* Properties of the job record *)

Jobs == DOMAIN JOB_STORE

Terminal == {"done", "error"}

\* C1: between two successive writes made while the job's status is running
\* (the write of 1 at submission, every checkpoint of both per-scene loops,
\* the final write of 100), the stored progress never decreases.
C1_ProgressNeverDecreases ==
    [][\A j \in Jobs :
          (JOB_STORE[j].status = "running" /\ JOB_STORE'[j].status = "running")
              => JOB_STORE'[j].progress >= JOB_STORE[j].progress]_vars

\* A three-scene job has gone through both loops and made its final write
\* while still running.
C1_Witness ==
    \E j \in Jobs :
        /\ JOB_STORE[j].status = "running"
        /\ JOB_STORE[j].progress = 100
        /\ Len(task[j].scenes) = 3

\* C2: in every state of a job record that a status poll can observe (the
\* event loop is free; the body of a status response), progress is 100
\* exactly when status is done.
C2_HundredIffDone ==
    /\ cur = Idle =>
          \A j \in Jobs :
              JOB_STORE[j].progress = 100 <=> JOB_STORE[j].status = "done"
    /\ (resp.op = "status" /\ resp.code = 200) =>
          (resp.body.progress = 100 <=> resp.body.status = "done")

\* A poll has returned a finished job.
C2_Witness ==
    /\ resp.op = "status"
    /\ resp.code = 200
    /\ resp.body.status = "done"
    /\ resp.body.progress = 100

ExceptPcs == {"except", "except_error", "except_progress"}

HasRaised(t) == t.calls # <<>> /\ ~t.calls[Len(t.calls)].ok

ErrorRecord(r) ==
    /\ r.status = "error"
    /\ r.progress = 0
    /\ r.error # NoKey
    /\ r.file = None
    /\ r.preview = None

\* C3: once a stage of a run has raised, no later stage is called (only the
\* last call of a run can be the one that raised, and control is then in the
\* except block), and when that run ends the record has status error,
\* progress 0, an error message, and neither a final-artifact nor a
\* preview path.
C3_RaiseAbortsAndRecordsError ==
    /\ [](\A j \in JobIds :
            /\ \A k \in 1..(Len(task[j].calls) - 1) : task[j].calls[k].ok
            /\ HasRaised(task[j]) <=> task[j].pc \in ExceptPcs)
    /\ [][\A j \in JobIds :
            (task[j].pc \in ExceptPcs /\ task'[j].pc = "finished")
                => ErrorRecord(JOB_STORE'[j])]_vars

\* A run in which an encoder stage raised has ended.
C3_Witness ==
    \E j \in Jobs :
        /\ task[j].pc = "finished"
        /\ ErrorRecord(JOB_STORE[j])
        /\ JOB_STORE[j].error = "encoder failed"

StatusEdges ==
    {<<"pending", "running">>, <<"running", "done">>, <<"running", "error">>}

StatusFollowsEdges(j) ==
    \/ JOB_STORE'[j].status = JOB_STORE[j].status
    \/ <<JOB_STORE[j].status, JOB_STORE'[j].status>> \in StatusEdges

\* C4 as stated: the status moves only along pending -> running -> done or
\* pending -> running -> error, and once it is done or error no field of the
\* record is written again.
C4_Original ==
    [][\A j \in Jobs :
          /\ StatusFollowsEdges(j)
          /\ JOB_STORE[j].status \in Terminal => JOB_STORE'[j] = JOB_STORE[j]]_vars

\* C4 amended: the status moves only along those edges (so a terminal status
\* is entered at most once and never left); after done nothing is written;
\* after the write of status error the same run still writes the error
\* message and then progress 0 (lines 280-281) without releasing the event
\* loop, and once the run has ended the record is never written again.
C4_TerminalOnce ==
    [][\A j \in Jobs :
          /\ StatusFollowsEdges(j)
          /\ JOB_STORE[j].status = "done" => JOB_STORE'[j] = JOB_STORE[j]
          /\ task[j].pc = "finished" => JOB_STORE'[j] = JOB_STORE[j]
          /\ (JOB_STORE[j].status = "error" /\ JOB_STORE'[j] # JOB_STORE[j]) =>
                /\ cur = W(j)
                /\ \/ /\ task[j].pc = "except_error"
                      /\ JOB_STORE'[j] =
                            [JOB_STORE[j] EXCEPT !.error = JOB_STORE'[j].error]
                   \/ /\ task[j].pc = "except_progress"
                      /\ JOB_STORE'[j] = [JOB_STORE[j] EXCEPT !.progress = 0]]_vars

\* The status is already error and the run is about to reset the progress.
C4_Witness ==
    \E j \in Jobs :
        /\ JOB_STORE[j].status = "error"
        /\ JOB_STORE[j].error # NoKey
        /\ JOB_STORE[j].progress > 0
        /\ task[j].pc = "except_progress"

\* C5: in every observable state of a job record, the final-artifact path
\* is present iff status is done, the preview path is present iff status is
\* done, and an error message is present iff status is error.
C5_FieldsMatchStatus ==
    /\ cur = Idle =>
          \A j \in Jobs :
              /\ JOB_STORE[j].file # None <=> JOB_STORE[j].status = "done"
              /\ JOB_STORE[j].preview # None <=> JOB_STORE[j].status = "done"
              /\ JOB_STORE[j].error # NoKey <=> JOB_STORE[j].status = "error"
    /\ (resp.op = "status" /\ resp.code = 200) =>
              /\ resp.body.file # None <=> resp.body.status = "done"
              /\ resp.body.preview # None <=> resp.body.status = "done"
              /\ resp.body.error # NoKey <=> resp.body.status = "error"

\* Observable at once: a done job with both paths and a failed job with a
\* message and no path.
C5_Witness ==
    /\ cur = Idle
    /\ \E j, k \in Jobs :
        /\ JOB_STORE[j].status = "done"
        /\ JOB_STORE[j].file = out_file(j)
        /\ JOB_STORE[j].preview = preview_path(j)
        /\ JOB_STORE[k].status = "error"
        /\ JOB_STORE[k].error # NoKey

\* C6: a download or preview retrieval answers with a path exactly when the
\* job is known and its status is done; for a pending, running or failed
\* job and for an unknown id it answers not-ready (404) and carries no path.
C6_RetrievalOnlyWhenDone ==
    resp.op \in {"download", "preview"} =>
        /\ resp.code \in {200, 404}
        /\ resp.code = 200 <=>
              (known(resp.job_id) /\ JOB_STORE[resp.job_id].status = "done")
        /\ resp.code = 404 => resp.body = None
        /\ resp.code = 200 =>
              resp.body = IF resp.op = "download" THEN out_file(resp.job_id)
                          ELSE preview_path(resp.job_id)

\* A download was refused for a job that is running.
C6_Witness ==
    /\ resp.op = "download"
    /\ resp.code = 404
    /\ known(resp.job_id)
    /\ JOB_STORE[resp.job_id].status = "running"

\* C7 as stated: every record created by submission eventually has status
\* done or error.
C7_EventuallyTerminal ==
    \A j \in JobIds :
        known(j) ~> (known(j) /\ JOB_STORE[j].status \in Terminal)

AtStage(t) ==
    \/ t.pc \in {"audio_loop", "video_loop"} /\ t.i < Len(t.scenes)
    \/ t.pc \in {"mux", "concat", "preview"}

\* C9 as stated: while a run is inside a stage operation it has yielded the
\* event loop, so that polls and other jobs' tasks can run.
C9_YieldsInsideStage ==
    \A j \in JobIds : AtStage(task[j]) => cur = Idle

----------------------------------------------------------------------------
(* Properties of the parser *)

\* What a line of the script is expected to give, stated without the
\* parser's own helpers: the part before and after the first ":", without
\* the white space around it.
Trimmed(s) ==
    LET ink == {k \in 1..Len(s) : s[k] \notin Whitespace} IN
    IF ink = {} THEN <<>>
    ELSE SubSeq(s, CHOOSE a \in ink : \A k \in ink : a <= k,
                   CHOOSE b \in ink : \A k \in ink : b >= k)

FirstSep(s) == CHOOSE k \in 1..Len(s) : s[k] = ":" /\ \A m \in 1..(k - 1) : s[m] # ":"

SpeakerOf(line) == Trimmed(SubSeq(line, 1, FirstSep(line) - 1))

TextOf(line) == Trimmed(SubSeq(line, FirstSep(line) + 1, Len(line)))

UpperCased(s) == [k \in 1..Len(s) |-> IF s[k] = "a" THEN "A" ELSE s[k]]

AllTagged(lines) == \A k \in 1..Len(lines) : ":" \in Range(lines[k])

\* C10 as stated: when every line contains ":", the parser returns one
\* scene per line, in line order, and scene k carries exactly the trimmed
\* speaker and the trimmed text of line k.
C10_Original ==
    LET lines == splitlines(p_script) IN
    (p_pc = "parsed" /\ AllTagged(lines)) =>
        /\ Len(p_scenes) = Len(lines)
        /\ \A k \in 1..Len(lines) :
              /\ p_scenes[k].character = SpeakerOf(lines[k])
              /\ p_scenes[k].text = TextOf(lines[k])

\* C10 amended: when every line contains ":", the parser returns one scene
\* per line, in line order, and scene k carries the trimmed and upper-cased
\* speaker and exactly the trimmed text of line k.
C10_OneScenePerTaggedLine ==
    LET lines == splitlines(p_script) IN
    (p_pc = "parsed" /\ AllTagged(lines)) =>
        /\ Len(p_scenes) = Len(lines)
        /\ \A k \in 1..Len(lines) :
              /\ p_scenes[k].character = UpperCased(SpeakerOf(lines[k]))
              /\ p_scenes[k].text = TextOf(lines[k])

\* A parsed script of two tagged lines, the first with a lower-case speaker
\* and white space before its text.
C10_Witness ==
    /\ p_pc = "parsed"
    /\ Len(splitlines(p_script)) = 2
    /\ AllTagged(splitlines(p_script))
    /\ p_script[1] = "a"
    /\ p_script[3] = " "
    /\ Len(p_scenes) = 2


\* The structure of a script, stated on its lines without the parser: which
\* lines are blank, tagged or bare, whether a scene is open when a line is
\* read, and which scene a line belongs to.
IsBlankLine(l) == Trimmed(l) = <<>>

IsTaggedLine(l) == ":" \in Range(l)

IsBareLine(l) == ~IsBlankLine(l) /\ ":" \notin Range(l)

SceneOpenBefore(lines, k) == k > 1 /\ ~IsBlankLine(lines[k - 1])

IsContinuation(lines, k) == IsBareLine(lines[k]) /\ SceneOpenBefore(lines, k)

StartsScene(lines, k) ==
    \/ IsTaggedLine(lines[k])
    \/ IsBareLine(lines[k]) /\ ~SceneOpenBefore(lines, k)

SceneIndex(lines, k) == Cardinality({m \in 1..k : StartsScene(lines, m)})

LastLineOfScene(lines, k) ==
    /\ ~IsBlankLine(lines[k])
    /\ k = Len(lines) \/ ~IsContinuation(lines, k + 1)

\* The text of the scene of line k once line k has been read: the previous
\* text, one space, the trimmed line.
RECURSIVE TextUpTo(_, _)
TextUpTo(lines, k) ==
    IF IsContinuation(lines, k)
    THEN TextUpTo(lines, k - 1) \o <<" ">> \o Trimmed(lines[k])
    ELSE IF IsTaggedLine(lines[k]) THEN TextOf(lines[k])
    ELSE Trimmed(lines[k])

ContinuationsJoined(lines) ==
    /\ Len(p_scenes) = Cardinality({k \in 1..Len(lines) : StartsScene(lines, k)})
    /\ \A k \in 1..Len(lines) :
          LastLineOfScene(lines, k) =>
              p_scenes[SceneIndex(lines, k)].text = TextUpTo(lines, k)

C12_TextNonEmpty ==
    p_pc = "parsed" =>
        /\ DOMAIN p_scenes = 1..Len(p_scenes)
        /\ \A n \in 1..Len(p_scenes) : Trimmed(p_scenes[n].text) # <<>>

----------------------------------------------------------------------------
(* Scene visuals: asset selection and duration *)

\* The entry of the non-empty list l that round-robin gives to scene i: the
\* one at the position k with i = q * Len(l) + k for some whole q.
RoundRobin(l, i) ==
    CHOOSE a \in Range(l) :
        \E k \in 0..(Len(l) - 1), q \in 0..i :
            /\ i = q * Len(l) + k
            /\ a = l[k + 1]

\* C13: the scene at zero-based position i takes the image at position
\* i modulo the number of images when there is at least one image, with the
\* clip list ignored; with no image and at least one clip it takes the clip
\* at position i modulo the number of clips; with neither it has no asset.
\* With two images the even scenes take the first and the odd the second.
C13_AssetRoundRobin ==
    v_pc = "called" =>
        LET i == v_in.i
            images == v_in.images
            clips == v_in.clips
        IN /\ images # <<>> => v_out.asset = RoundRobin(images, i)
           /\ (images = <<>> /\ clips # <<>>) =>
                  v_out.asset = RoundRobin(clips, i)
           /\ (images = <<>> /\ clips = <<>>) => v_out.asset = NoAsset
           /\ Len(images) = 2 =>
                  v_out.asset = IF i % 2 = 0 THEN images[1]
                                ELSE images[2]

C13_Witness ==
    /\ v_pc = "called"
    /\ v_in.i = 3
    /\ v_in.images = <<"a.png", "b.mp4">>
    /\ v_in.clips = <<"c.mp4">>
    /\ v_out.asset = "b.mp4"

\* C14: the target duration of a scene is the larger of 4 and the number of
\* whitespace-separated words of its text divided by 2.5, truncated to a
\* whole number; it is 4 for every text of at most 12 words, and it does not
\* depend on the renderer chosen for the scene.
C14_DurationFromWords ==
    v_pc = "called" =>
        LET w == v_in.words
            d == v_out.duration
        IN /\ d >= 4
           /\ w <= 12 => d = 4
           /\ w > 12 => (5 * d <= 2 * w /\ 2 * w < 5 * (d + 1))

C14_Witness ==
    /\ v_pc = "called"
    /\ v_in.words = 13
    /\ v_in.gap = 2
    /\ v_out.visual = "placeholder"
    /\ v_out.duration = 5

----------------------------------------------------------------------------
(* Jobs whose script has no scene *)

AfterParsePcs ==
    {"audio_init", "audio_loop", "audio_progress", "video_loop", "mux",
     "video_progress", "concat", "concat_progress", "preview", "file",
     "progress100", "done", "except", "except_error", "except_progress"}

\* The run of job j has parsed its script and found no scene in it.
ZeroSceneRun(j) == task[j].pc \in AfterParsePcs /\ task[j].scenes = <<>>

\* C15: a run whose script parses to zero scenes never gets past the
\* concatenation, which raises on its empty list: the run never enters the
\* preview, file, progress-100 or done steps, its record is never done and
\* has neither a final-artifact nor a preview path, the only call that
\* raises is concat_videos, and the run ends with status error, progress 0
\* and the message of that failure.
C15_ZeroScenesEndInError ==
    /\ [](\A j \in JobIds :
            ZeroSceneRun(j) =>
                /\ task[j].pc \in {"audio_init", "audio_loop", "video_loop",
                                   "concat"} \cup ExceptPcs
                /\ task[j].scene_video_files = <<>>
                /\ JOB_STORE[j].status # "done"
                /\ JOB_STORE[j].file = None
                /\ JOB_STORE[j].preview = None
                /\ task[j].pc \in ExceptPcs =>
                      /\ task[j].e = "No videos to concat"
                      /\ task[j].calls[Len(task[j].calls)].stage
                            = "concat_videos")
    /\ [][\A j \in JobIds :
            ZeroSceneRun(j) =>
                /\ task'[j].pc \in AfterParsePcs \cup {"finished"}
                /\ task[j].pc = "concat" => task'[j].pc = "except"
                /\ task'[j].pc = "finished" =>
                      /\ ErrorRecord(JOB_STORE'[j])
                      /\ JOB_STORE'[j].error = "No videos to concat"]_vars

\* The run of a job without scenes has ended.
C15_Witness ==
    \E j \in Jobs :
        /\ task[j].pc = "finished"
        /\ JOB_STORE[j].status = "error"
        /\ JOB_STORE[j].progress = 0
        /\ JOB_STORE[j].error = "No videos to concat"
        /\ JOB_STORE[j].file = None

----------------------------------------------------------------------------
(* Order of the stages of one run *)

\* The stage calls of a complete run over n scenes, in the order required:
\* parse, the n syntheses, then visual and mux of each scene in turn, the
\* concatenation, the preview.
ExpectedStages(n) ==
    [k \in 1..(3 * n + 3) |->
        IF k = 1 THEN <<"parse", 0>>
        ELSE IF k <= n + 1 THEN <<"synthesize_character_voice", k - 2>>
        ELSE IF k <= 3 * n + 1
             THEN LET m == k - (n + 2) IN
                  IF m % 2 = 0 THEN <<"visual", m \div 2>>
                  ELSE <<"mux_video_with_audio", m \div 2>>
        ELSE IF k = 3 * n + 2 THEN <<"concat_videos", 0>>
        ELSE <<"generate_preview", 0>>]

\* The stages called so far by run t are the first ones of the required
\* order for its number of scenes.
InStageOrder(t) ==
    LET e == ExpectedStages(Len(t.scenes)) IN
    /\ Len(t.calls) <= Len(e)
    /\ \A k \in 1..Len(t.calls) :
          <<t.calls[k].stage, t.calls[k].i>> = e[k]

\* C16: within one run the stages are called in the order parse, audio
\* synthesis of scenes 0..n-1, then for each scene in index order its visual
\* and then its mux, the concatenation, the preview; the mux of scene i
\* takes the audio of scene i; the concatenation is given exactly the n
\* muxed clips in scene order; and the record becomes done only after every
\* stage of that order was called and returned.
C16_StagesInOrder ==
    /\ [](\A j \in JobIds :
            /\ InStageOrder(task[j])
            /\ \A k \in 1..Len(task[j].scene_video_files) :
                  task[j].scene_video_files[k]
                      = <<"final", k - 1, <<"audio", k - 1>>>>
            /\ task[j].pc \in {"concat", "concat_progress", "preview"} =>
                  Len(task[j].scene_video_files) = Len(task[j].scenes)
            /\ task[j].pc \in {"file", "progress100", "done"} =>
                  /\ Len(task[j].calls) = 3 * Len(task[j].scenes) + 3
                  /\ \A k \in 1..Len(task[j].calls) : task[j].calls[k].ok)
    /\ [][\A j \in Jobs :
            (JOB_STORE[j].status # "done" /\ JOB_STORE'[j].status = "done")
                => /\ task[j].pc = "done"
                   /\ Len(task[j].calls) = 3 * Len(task[j].scenes) + 3]_vars

\* A run over three scenes has called all twelve stages and is about to be
\* marked done.
C16_Witness ==
    \E j \in Jobs :
        /\ task[j].pc = "done"
        /\ Len(task[j].scenes) = 3
        /\ Len(task[j].calls) = 12
        /\ task[j].calls[8].stage = "mux_video_with_audio"
        /\ task[j].calls[8].i = 1

----------------------------------------------------------------------------
(* Progress bands *)

\* a / n rounded down, for a >= 0 and n >= 1.
Floor(a, n) == CHOOSE q \in 0..a : q * n <= a /\ a < (q + 1) * n

----------------------------------------------------------------------------
(* Missing assets *)

\* The last stage run t called is the visual of a scene.
VisualJustCalled(t) ==
    t.calls # <<>> /\ t.calls[Len(t.calls)].stage = "visual"

\* The asset selected for the scene is not on disk.
AssetMissing(t) == t.asset # NoAsset /\ ~t.exists

\* The selected asset was taken from the clip list.
ClipSelected(t) == t.images = <<>> /\ t.clips # <<>>

\* C19 as stated: a missing asset gets the placeholder, except that a missing
\* clip does not get it and the visual call fails.
C19_Original ==
    \A j \in JobIds :
        (VisualJustCalled(task[j]) /\ AssetMissing(task[j])) =>
            IF ClipSelected(task[j])
            THEN /\ task[j].visual # "placeholder"
                 /\ task[j].pc \in ExceptPcs
            ELSE task[j].visual = "placeholder"

\* C19, amended: when the asset selected for a scene is not on disk, the
\* scene gets the text placeholder whether the asset is an image or a clip,
\* and the run goes on to the mux of the scene unless the rendering of the
\* placeholder itself raises.
C19_MissingAssetGetsPlaceholder ==
    \A j \in JobIds :
        (VisualJustCalled(task[j]) /\ AssetMissing(task[j])) =>
            /\ task[j].visual = "placeholder"
            /\ task[j].calls[Len(task[j].calls)].ok <=> task[j].pc = "mux"
            /\ ~task[j].calls[Len(task[j].calls)].ok <=>
                  task[j].pc \in ExceptPcs

\* The clip selected for a scene is not on disk, the placeholder was
\* rendered and the run is at the mux of the scene.
C19_Witness ==
    \E j \in Jobs :
        /\ VisualJustCalled(task[j])
        /\ task[j].asset = "c.mp4"
        /\ ~task[j].exists
        /\ task[j].visual = "placeholder"
        /\ task[j].pc = "mux"

----------------------------------------------------------------------------
(* Progress and status as a client sees them *)

\* The record r has progress 0 exactly when it is pending or failed, and at
\* least 1 while it is running.
ZeroIffIdleOrFailed(r) ==
    /\ r.progress = 0 <=> r.status \in {"pending", "error"}
    /\ r.status = "running" => r.progress >= 1

\* C20: in every state of a job record that a client can observe (the event
\* loop is free; the body of a status response), progress is 0 exactly when
\* status is pending or error, and progress is at least 1 while status is
\* running.
C20_ZeroProgressIffPendingOrError ==
    /\ cur = Idle => \A j \in Jobs : ZeroIffIdleOrFailed(JOB_STORE[j])
    /\ (resp.op = "status" /\ resp.code = 200) =>
          ZeroIffIdleOrFailed(resp.body)

\* With the event loop free, one job has failed and another has just been
\* started.
C20_Witness ==
    /\ cur = Idle
    /\ \E j, k \in Jobs :
          /\ JOB_STORE[j].status = "error"
          /\ JOB_STORE[j].progress = 0
          /\ JOB_STORE[k].status = "running"
          /\ JOB_STORE[k].progress = 1

============================================================================
